---- MODULE Spec2Model ----
(***************************************************************************)
(* pistats.py: the status/render loop of main, the reboot/shutdown menu    *)
(* (restart_menu) and the cancellable confirmation countdown               *)
(* (action_or_cancel).  The program is one thread; a step of the model is  *)
(* one pass through a loop body, from its head to the sleep that ends it.  *)
(***************************************************************************)
EXTENDS Integers, Sequences, FiniteSets, TLC

\* ------------------------------------------------------------ constants

ROTATION == 180

\* The COLORS dict, in insertion order (which list(COLORS.values()) keeps).
COLORS ==
  << [name |-> "pink",    hex |-> "#FF9999"],
     [name |-> "aqua",    hex |-> "#00FFFF"],
     [name |-> "green",   hex |-> "#00FF00"],
     [name |-> "white",   hex |-> "#FFFFFF"],
     [name |-> "yellow",  hex |-> "#FFFF00"],
     [name |-> "magenta", hex |-> "#FF00FF"],
     [name |-> "blue",    hex |-> "#0000FF"],
     [name |-> "red",     hex |-> "#FF0000"] >>

\* COLORS[name]
Color(name) == COLORS[CHOOSE i \in 1..Len(COLORS) : COLORS[i].name = name].hex

\* range(10, 0, -1) of restart_menu and range(9, 0, -1) of action_or_cancel
\* (variant: the menu loop one iteration short)
MenuStart_short == 10 - 1
MenuStart == 10
ConfirmStart == 9

\* The longest list of metric lines the colour law is checked for.
MaxStats == 9

\* ------------------------------------------------------------ the frame

\* A vertical offset t * TEXT_HEIGHT + b * BIG_TEXT_HEIGHT; the two heights
\* are font metrics read at import time, so offsets are kept symbolic.
Y(t, b) == [t |-> t, b |-> b]

\* draw.text((0, y), text, font=font, fill=fill)
draw_text(img, y, text, font, fill) ==
  Append(img, [y |-> y, text |-> text, font |-> font, fill |-> fill])

\* (variant: nothing is cleared)
reset_to_black_kept(img) == img

\* reset_to_black: the black rectangle (0,0)-(239,239) covers the whole
\* 240x240 image, so nothing drawn before it remains.
reset_to_black(img) == <<>>

\* (variant: the rotation argument dropped, the panel's own orientation)
display_image_unrotated(img, rotation) == [img |-> img, rot |-> 0]

\* disp.display.image(image, rotation): what the panel then shows
display_image(img, rotation) == [img |-> img, rot |-> rotation]

\* One entry of the record of calls made during a step.
Ev(op, arg) == [op |-> op, arg |-> arg]

\* ------------------------------------------------------------ buttons

\* A read of a pin: the level (TRUE = high = released, the buttons are
\* active-low), or a read that raises.
PinReads(faults) ==
  {[ok |-> TRUE, value |-> v] : v \in BOOLEAN}
    \cup (IF faults THEN {[ok |-> FALSE, value |-> TRUE]} ELSE {})

buttonA_on(value) == ~value
buttonA_off(value) == value
buttonB_on(value) == ~value
buttonB_off(value) == value

Call(name, value) ==
  CASE name = "buttonA_on"  -> buttonA_on(value)
    [] name = "buttonA_off" -> buttonA_off(value)
    [] name = "buttonB_on"  -> buttonB_on(value)
    [] name = "buttonB_off" -> buttonB_off(value)

PyBool(b) == IF b THEN "True" ELSE "False"

\* A short-circuit `x and y` / `x or y` over button calls, reading the pins
\* rs[k], rs[k+1], ... one per call actually made.
RECURSIVE EvalCalls(_, _, _, _, _)
EvalCalls(op, calls, i, rs, k) ==
  IF i > Len(calls)
  THEN [res |-> PyBool(op = "and"), k |-> k, ev |-> <<>>]
  ELSE IF ~rs[k].ok
  THEN [res |-> "raise", k |-> k + 1, ev |-> <<Ev(calls[i], "raise")>>]
  ELSE LET v == Call(calls[i], rs[k].value)
           e == Ev(calls[i], PyBool(v))
       IN  IF op = "and" /\ ~v
           THEN [res |-> "False", k |-> k + 1, ev |-> <<e>>]
           ELSE IF op = "or" /\ v
           THEN [res |-> "True", k |-> k + 1, ev |-> <<e>>]
           ELSE LET rest == EvalCalls(op, calls, i + 1, rs, k + 1)
                IN  [res |-> rest.res, k |-> rest.k, ev |-> <<e>> \o rest.ev]

\* if c1: ... elif c2: ... else: the index of the first condition that is
\* true, 0 when none is, -1 when a read raised.
RECURSIVE IfElif(_, _, _, _)
IfElif(conds, i, rs, k) ==
  IF i > Len(conds)
  THEN [branch |-> 0, ev |-> <<>>]
  ELSE LET c == EvalCalls(conds[i].op, conds[i].calls, 1, rs, k)
       IN  IF c.res = "raise" THEN [branch |-> -1, ev |-> c.ev]
           ELSE IF c.res = "True" THEN [branch |-> i, ev |-> c.ev]
           ELSE LET rest == IfElif(conds, i + 1, rs, c.k)
                IN  [branch |-> rest.branch, ev |-> c.ev \o rest.ev]

\* (variant: the third test of main written with `or`)
main_conds_or ==
  << [op |-> "and", calls |-> <<"buttonA_on", "buttonB_off">>],
     [op |-> "and", calls |-> <<"buttonB_on", "buttonA_off">>],
     [op |-> "or",  calls |-> <<"buttonB_on", "buttonA_on">>] >>

\* main: A and not B / B and not A / B and A / else
main_conds ==
  << [op |-> "and", calls |-> <<"buttonA_on", "buttonB_off">>],
     [op |-> "and", calls |-> <<"buttonB_on", "buttonA_off">>],
     [op |-> "and", calls |-> <<"buttonB_on", "buttonA_on">>] >>

\* (variant: the two tests of restart_menu in the other order)
menu_conds_swapped ==
  << [op |-> "and", calls |-> <<"buttonB_on", "buttonA_off">>],
     [op |-> "and", calls |-> <<"buttonA_on", "buttonB_off">>] >>

\* restart_menu: A and not B (reboot) / B and not A (shutdown)
menu_conds ==
  << [op |-> "and", calls |-> <<"buttonA_on", "buttonB_off">>],
     [op |-> "and", calls |-> <<"buttonB_on", "buttonA_off">>] >>

\* (variant: cancelling needs both buttons)
cancel_conds_and ==
  << [op |-> "and", calls |-> <<"buttonA_on", "buttonB_on">>] >>

\* action_or_cancel: A or B cancels
cancel_conds ==
  << [op |-> "or", calls |-> <<"buttonA_on", "buttonB_on">>] >>

\* What a chain of at most n button calls can come to, over every way the
\* pins can read at each call: the branch taken and the calls made.
Outcomes(conds, n, faults) ==
  {IfElif(conds, 1, rs, 1) : rs \in [1..n -> PinReads(faults)]}

MainOutcomes == Outcomes(main_conds, 6, FALSE)
MenuOutcomes == Outcomes(menu_conds, 4, FALSE)
CancelOutcomes == Outcomes(cancel_conds, 2, FALSE)

\* The same when a read may raise
MainOutcomesFaulty == Outcomes(main_conds, 6, TRUE)
MenuOutcomesFaulty == Outcomes(menu_conds, 4, TRUE)
CancelOutcomesFaulty == Outcomes(cancel_conds, 2, TRUE)

\* ------------------------------------------------------------ get_stats

\* The seven queries in order: the label the code prepends (none where the
\* command prints its own) and a sample of the command's output.
QUERIES ==
  << [prefix |-> "Hostname: ", out |-> "pi"],
     [prefix |-> "IP: ",       out |-> "10.0.0.2"],
     [prefix |-> "",           out |-> "Load Avg: 0.10"],
     [prefix |-> "Uptime: ",   out |-> "1 day,"],
     [prefix |-> "",           out |-> "CPU Temp: 45.0 C"],
     [prefix |-> "",           out |-> "Mem: 100/900 MB  11.11%"],
     [prefix |-> "",           out |-> "Disk: 5/20 GB  25%"] >>

\* The query that is the first to fail in a call of get_stats (0: none)
NoBadQuery == {0}
BadQueries == 0..Len(QUERIES)

\* get_stats() when the first query to fail is number `bad` (0: none fails).
\* subprocess.check_output raises on a failed command and nothing catches
\* it: the queries after it do not run and no list is returned.
get_stats(bad) ==
  LET n == IF bad = 0 THEN Len(QUERIES) ELSE bad
  IN  [raised |-> bad # 0,
       stats  |-> IF bad # 0 THEN <<>>
                  ELSE [i \in 1..Len(QUERIES) |-> QUERIES[i].prefix \o QUERIES[i].out],
       ev     |-> [i \in 1..n |->
                     Ev("check_output", IF i = bad THEN "raise" ELSE "ok")]]

\* list(COLORS.values())
fill_colors == [i \in 1..Len(COLORS) |-> COLORS[i].hex]

\* (variant: the index taken without the modulo, clamped to the last colour)
stat_fill_clamped(ndx) ==
  fill_colors[IF ndx < Len(fill_colors) THEN ndx + 1 ELSE Len(fill_colors)]

\* fill_colors[ndx % len(fill_colors)], ndx counted from 0
stat_fill(ndx) == fill_colors[(ndx % Len(fill_colors)) + 1]

\* for ndx, stat in enumerate(stats): draw at y, y += TEXT_HEIGHT
draw_stats(img, st) ==
  img \o [i \in 1..Len(st) |->
            [y |-> Y(i - 1, 0), text |-> st[i], font |-> "FONT",
             fill |-> stat_fill(i - 1)]]

\* ------------------------------------------------------------ screens

\* The menu frame of restart_menu for one value of its countdown
menu_frame(img, cd) ==
  LET i0 == reset_to_black(img)
      i1 == draw_text(i0, Y(1, 0), "to REBOOT:", "BIG_FONT", Color("green"))
      i2 == draw_text(i1, Y(1, 1), "   hold button A", "FONT", Color("white"))
      i3 == draw_text(i2, Y(3, 1), "to SHUTDOWN:", "BIG_FONT", Color("yellow"))
      i4 == draw_text(i3, Y(3, 2), "   hold button B", "FONT", Color("white"))
      i5 == draw_text(i4, Y(5, 2), "Times out in:", "BIG_FONT", Color("red"))
  IN  draw_text(i5, Y(5, 3), "   " \o ToString(cd) \o " seconds", "BIG_FONT",
                Color("pink"))

act_name(rb) == IF rb THEN "REBOOT" ELSE "SHUTDOWN"
act_msg(rb) == IF rb THEN "Rebooting..." ELSE "Shutting down..."
act_color(rb) == IF rb THEN Color("green") ELSE Color("yellow")
\* (variant: the two flags exchanged)
act_flag_swapped(rb) == IF rb THEN "-P" ELSE "-r"
act_flag(rb) == IF rb THEN "-r" ELSE "-P"

\* The confirmation frame of action_or_cancel for one value of its countdown
confirm_frame(img, rb, cd) ==
  LET i0 == reset_to_black(img)
      i1 == draw_text(i0, Y(1, 0), act_name(rb), "BIG_FONT", act_color(rb))
      i2 == draw_text(i1, Y(1, 1), "  in " \o ToString(cd) \o " seconds!!",
                      "BIG_FONT", Color("aqua"))
      i3 == draw_text(i2, Y(1, 4), "TO CANCEL:", "BIG_FONT", Color("white"))
  IN  draw_text(i3, Y(1, 5), " hold any button", "BIG_FONT", Color("white"))

\* The frame one_msg draws
msg_frame(img, msg, fill) ==
  draw_text(reset_to_black(img), Y(0, 3), msg, "BIG_FONT", fill)

\* The calls one_msg makes
msg_calls ==
  << Ev("reset_to_black", ""), Ev("text", ""), Ev("image", ToString(ROTATION)),
     Ev("sleep", "2") >>

\* (variant: main draws from a list it kept, get_stats is not called)
main_prologue_cached == << Ev("reset_to_black", "") >>

\* The first calls of a pass of main: the clear, then get_stats
main_prologue == << Ev("reset_to_black", ""), Ev("get_stats", "") >>

\* (variant: action_or_cancel without its first sleep)
entry_calls_none == << >>

\* The first call of action_or_cancel, before its loop: time.sleep(1)
entry_calls == << Ev("sleep", "1") >>

\* The command line handed to os.system
shutdown_cmd(rb) == "sudo /usr/sbin/shutdown " \o act_flag(rb) \o " now --no-wall"

\* ------------------------------------------------------------ state

VARIABLES
  pc,         \* where the program is: "main" (head of the while loop),
              \* "menu" (head of restart_menu's loop), "confirm" (head of
              \* action_or_cancel's loop), "act" (line 124, the loop is over),
              \* "main_commit" (line 245, restart_menu has returned),
              \* "halted" (the host went down), "crashed" (uncaught exception)
  mcount,     \* restart_menu's countdown
  acount,     \* action_or_cancel's countdown
  reboot,     \* action_or_cancel's argument
  stats,      \* main's stats
  image,      \* the off-screen image: the texts drawn since it was cleared
  panel,      \* what the display shows: the last image handed to it
  trace,      \* the calls made during the last step, in order
  syscalls,   \* the commands given to os.system since the menu was entered
  status,     \* what the last os.system call returned
  exc,        \* the exception that ended the program
  selected,   \* the button sample that left the menu for a confirmation
  menuIters,  \* the menu iterations run since the menu was entered
  cleanIters  \* the confirmation iterations that read both buttons released

vars == << pc, mcount, acount, reboot, stats, image, panel, trace, syscalls,
           status, exc, selected, menuIters, cleanIters >>

\* The last two button reads of a step, as a sample of the two buttons.
ButtonEvents(tr) == SelectSeq(tr, LAMBDA e : e.op \in
  {"buttonA_on", "buttonA_off", "buttonB_on", "buttonB_off"})

LastSample(tr) ==
  LET b == ButtonEvents(tr)
      n == Len(b)
  IN  IF n < 2 THEN "NONE"
      ELSE IF b[n - 1] = Ev("buttonA_on", "True") /\ b[n] = Ev("buttonB_off", "True")
      THEN "A_ONLY"
      ELSE IF b[n - 1] = Ev("buttonB_on", "True") /\ b[n] = Ev("buttonA_off", "True")
      THEN "B_ONLY"
      ELSE IF b[n - 1] = Ev("buttonB_on", "True") /\ b[n] = Ev("buttonA_on", "True")
      THEN "BOTH"
      ELSE "NONE"

\* 1 when the reads of a step found button A released and then button B
\* released, else 0
Released(tr) ==
  IF ButtonEvents(tr) = << Ev("buttonA_on", "False"), Ev("buttonB_on", "False") >>
  THEN 1 ELSE 0

Init ==
  /\ pc = "main"
  /\ mcount = 0
  /\ acount = 0
  /\ reboot = FALSE
  /\ stats = <<>>
  /\ image = <<>>
  /\ panel = [img |-> <<>>, rot |-> 0]
  /\ trace = <<>>
  /\ syscalls = <<>>
  /\ status = "none"
  /\ exc = "none"
  /\ selected = "NONE"
  /\ menuIters = 0
  /\ cleanIters = 0

\* An exception nothing catches: the traceback ends the process.
Raise(name, img, tr) ==
  /\ pc' = "crashed"
  /\ exc' = name
  /\ image' = img
  /\ trace' = tr

\* (variant: every button line in red)
button_line_red(branch) ==
  CASE branch = 1 -> [text |-> "Btns: A=ON, B=OFF", fill |-> Color("red")]
    [] branch = 2 -> [text |-> "Btns: A=OFF, B=ON", fill |-> Color("red")]
    [] branch = 0 -> [text |-> "Btns: both OFF", fill |-> Color("red")]

\* (variant: no break after action_or_cancel, the menu loop goes on)
AfterAction_resume == "menu"

\* Where control is once action_or_cancel has returned: the break leaves
\* restart_menu's loop, restart_menu returns, main goes on at line 245.
AfterAction == "main_commit"

\* The text and colour of main's button line for the branch taken
button_line(branch) ==
  CASE branch = 1 -> [text |-> "Btns: A=ON, B=OFF", fill |-> Color("white")]
    [] branch = 2 -> [text |-> "Btns: A=OFF, B=ON", fill |-> Color("white")]
    [] branch = 0 -> [text |-> "Btns: both OFF", fill |-> Color("red")]

\* One pass of main's while loop (lines 222-246); with both buttons on it
\* calls restart_menu and the pass goes on in MenuIter.
MainTick(bads, outs) ==
  /\ pc = "main"
  /\ \E bad \in bads, b \in outs :
       LET img0 == reset_to_black(image)
           g    == get_stats(bad)
           tr0  == main_prologue \o g.ev
           img1 == draw_stats(img0, g.stats)
           tr1  == tr0 \o [i \in 1..Len(g.stats) |-> Ev("text", "")]
           y    == Y(Len(g.stats), 0)
           tr2  == tr1 \o b.ev
       IN  IF g.raised
           THEN /\ Raise("CalledProcessError", img0, tr0)
                /\ UNCHANGED << mcount, acount, reboot, stats, panel, syscalls,
                                status, selected, menuIters, cleanIters >>
           ELSE IF b.branch = -1
           THEN /\ Raise("ReadError", img1, tr2)
                /\ stats' = g.stats
                /\ UNCHANGED << mcount, acount, reboot, panel, syscalls, status,
                                selected, menuIters, cleanIters >>
           ELSE IF b.branch = 3
           THEN /\ pc' = "menu"
                /\ mcount' = MenuStart
                /\ stats' = g.stats
                /\ image' = img1
                /\ trace' = tr2
                /\ syscalls' = <<>>
                /\ status' = "none"
                /\ selected' = "NONE"
                /\ menuIters' = 0
                /\ cleanIters' = 0
                /\ UNCHANGED << acount, reboot, panel, exc >>
           ELSE LET l    == button_line(b.branch)
                    img2 == draw_text(img1, y, l.text, "FONT", l.fill)
                IN  /\ pc' = "main"
                    /\ stats' = g.stats
                    /\ image' = img2
                    /\ panel' = display_image(img2, ROTATION)
                    /\ trace' = tr2 \o << Ev("text", ""),
                                          Ev("image", ToString(ROTATION)),
                                          Ev("sleep", "1") >>
                    /\ UNCHANGED << mcount, acount, reboot, syscalls, status,
                                    exc, selected, menuIters, cleanIters >>

\* One pass of restart_menu's loop (lines 182-208).  A-only or B-only calls
\* action_or_cancel, whose first statement is the one-second sleep.
MenuIter(outs) ==
  /\ pc = "menu"
  /\ \E b \in outs :
       LET img == menu_frame(image, mcount)
           tr  == << Ev("reset_to_black", "") >>
                    \o [i \in 1..6 |-> Ev("text", "")] \o b.ev
       IN  IF b.branch = -1
           THEN /\ Raise("ReadError", img, tr)
                /\ menuIters' = menuIters + 1
                /\ UNCHANGED << mcount, acount, reboot, stats, panel, syscalls,
                                status, selected, cleanIters >>
           ELSE IF b.branch \in {1, 2}
           THEN /\ pc' = "confirm"
                /\ reboot' = (b.branch = 1)
                /\ acount' = ConfirmStart
                /\ image' = img
                /\ trace' = tr \o entry_calls
                /\ selected' = LastSample(b.ev)
                /\ menuIters' = menuIters + 1
                /\ UNCHANGED << mcount, stats, panel, syscalls, status, exc,
                                cleanIters >>
           ELSE /\ pc' = IF mcount > 1 THEN "menu" ELSE "main_commit"
                /\ mcount' = mcount - 1
                /\ image' = img
                /\ panel' = display_image(img, ROTATION)
                /\ trace' = tr \o << Ev("image", ToString(ROTATION)),
                                     Ev("sleep", "1") >>
                /\ menuIters' = menuIters + 1
                /\ UNCHANGED << acount, reboot, stats, syscalls, status, exc,
                                selected, cleanIters >>

\* One pass of action_or_cancel's loop (lines 104-121).
ConfirmIter(outs) ==
  /\ pc = "confirm"
  /\ \E b \in outs :
       LET img == confirm_frame(image, reboot, acount)
           tr  == << Ev("reset_to_black", "") >>
                    \o [i \in 1..4 |-> Ev("text", "")]
                    \o << Ev("image", ToString(ROTATION)), Ev("sleep", "1") >>
                    \o b.ev
       IN  IF b.branch = -1
           THEN /\ Raise("ReadError", img, tr)
                /\ panel' = display_image(img, ROTATION)
                /\ UNCHANGED << mcount, acount, reboot, stats, syscalls, status,
                                selected, menuIters, cleanIters >>
           ELSE IF b.branch = 1
           THEN LET m == msg_frame(img, "  CANCELLED!", act_color(reboot))
                IN  /\ pc' = AfterAction
                    /\ image' = m
                    /\ panel' = display_image(m, ROTATION)
                    /\ trace' = tr \o msg_calls
                    /\ cleanIters' = cleanIters + Released(b.ev)
                    /\ UNCHANGED << mcount, acount, reboot, stats, syscalls,
                                    status, exc, selected, menuIters >>
           ELSE /\ pc' = IF acount > 1 THEN "confirm" ELSE "act"
                /\ acount' = acount - 1
                /\ image' = img
                /\ panel' = display_image(img, ROTATION)
                /\ trace' = tr
                /\ cleanIters' = cleanIters + Released(b.ev)
                /\ UNCHANGED << mcount, reboot, stats, syscalls, status, exc,
                                selected, menuIters >>

\* What os.system can do: the host goes down under the process, or the call
\* returns the command's exit status, which the code discards.
SystemOutcomes == {"halt", "ok", "error"}

\* The end of action_or_cancel (lines 124-127): the message, then os.system.
PowerAction ==
  /\ pc = "act"
  /\ \E out \in SystemOutcomes :
       LET m == msg_frame(image, act_msg(reboot), act_color(reboot))
       IN  /\ pc' = IF out = "halt" THEN "halted" ELSE AfterAction
           /\ image' = m
           /\ panel' = display_image(m, ROTATION)
           /\ trace' = msg_calls \o << Ev("system", act_flag(reboot)) >>
           /\ syscalls' = Append(syscalls, shutdown_cmd(reboot))
           /\ status' = out
           /\ UNCHANGED << mcount, acount, reboot, stats, exc, selected,
                           menuIters, cleanIters >>

\* (variant: the image is cleared before it is handed over)
MainCommit_cleared ==
  /\ pc = "main_commit"
  /\ pc' = "main"
  /\ image' = reset_to_black(image)
  /\ panel' = display_image(reset_to_black(image), ROTATION)
  /\ trace' = << Ev("reset_to_black", ""), Ev("image", ToString(ROTATION)),
                 Ev("sleep", "1") >>
  /\ mcount' = 0
  /\ acount' = 0
  /\ reboot' = FALSE
  /\ syscalls' = <<>>
  /\ status' = "none"
  /\ selected' = "NONE"
  /\ menuIters' = 0
  /\ cleanIters' = 0
  /\ UNCHANGED << stats, exc >>

\* Lines 245-246 after restart_menu has returned: the image as the menu or
\* the confirmation left it is handed to the display once more.  The locals
\* of the two functions that returned are gone, and with them the record of
\* the activation that is over.
MainCommit ==
  /\ pc = "main_commit"
  /\ pc' = "main"
  /\ panel' = display_image(image, ROTATION)
  /\ trace' = << Ev("image", ToString(ROTATION)), Ev("sleep", "1") >>
  /\ mcount' = 0
  /\ acount' = 0
  /\ reboot' = FALSE
  /\ syscalls' = <<>>
  /\ status' = "none"
  /\ selected' = "NONE"
  /\ menuIters' = 0
  /\ cleanIters' = 0
  /\ UNCHANGED << stats, image, exc >>

\* The program with buttons that read and queries that succeed
Next ==
  \/ MainTick(NoBadQuery, MainOutcomes)
  \/ MenuIter(MenuOutcomes)
  \/ ConfirmIter(CancelOutcomes)
  \/ PowerAction
  \/ MainCommit

Spec == Init /\ [][Next]_vars

\* The program when a pin read or a metric query may also fail
NextFaults ==
  \/ MainTick(BadQueries, MainOutcomesFaulty)
  \/ MenuIter(MenuOutcomesFaulty)
  \/ ConfirmIter(CancelOutcomesFaulty)
  \/ PowerAction
  \/ MainCommit

FaultSpec == Init /\ [][NextFaults]_vars

\* One thread and no unbounded wait: every sleep ends and every call returns
\* or takes the process down, so a step that can be taken is taken.
FairSpec == Init /\ [][Next]_vars /\ WF_vars(Next)

\* ------------------------------------------------------------ the colour law

\* Texts a metric line may hold when the list is not the one get_stats builds
StatTexts == {"Load Avg: 0.10", "Load Avg: 0.20"}

\* Lists of 0..MaxStats metric lines, given to the drawing loop of main
InitColors ==
  /\ pc = "draw_stats"
  /\ stats \in UNION {[1..n -> StatTexts] : n \in 0..MaxStats}
  /\ mcount = 0
  /\ acount = 0
  /\ reboot = FALSE
  /\ image = <<>>
  /\ panel = [img |-> <<>>, rot |-> 0]
  /\ trace = <<>>
  /\ syscalls = <<>>
  /\ status = "none"
  /\ exc = "none"
  /\ selected = "NONE"
  /\ menuIters = 0
  /\ cleanIters = 0

\* Lines 222 and 226-231 applied to such a list
DrawStatsOnly ==
  /\ pc = "draw_stats"
  /\ pc' = "stats_drawn"
  /\ image' = draw_stats(reset_to_black(image), stats)
  /\ trace' = << Ev("reset_to_black", "") >> \o [i \in 1..Len(stats) |-> Ev("text", "")]
  /\ UNCHANGED << mcount, acount, reboot, stats, panel, syscalls, status, exc,
                  selected, menuIters, cleanIters >>

NextColors ==
  \/ DrawStatsOnly
  \/ Next

\* The program, and beside it the drawing loop on lists of any length
StartColors == Init \/ InitColors

ColorSpec == StartColors /\ [][NextColors]_vars

\* ------------------------------------------------------------ observations

Count(tr, op) == Len(SelectSeq(tr, LAMBDA e : e.op = op))

Has(tr, e) == \E i \in 1..Len(tr) : tr[i] = e

\* A step read a button as pressed in the test of action_or_cancel
PressedRead(tr) == Has(tr, Ev("buttonA_on", "True")) \/ Has(tr, Ev("buttonB_on", "True"))

\* A step in which a pin read raised
ReadRaised(tr) ==
  \E i \in 1..Len(tr) :
    /\ tr[i].op \in {"buttonA_on", "buttonA_off", "buttonB_on", "buttonB_off"}
    /\ tr[i].arg = "raise"

\* The panel shows exactly the one message `msg`
Shows(p, msg) == Len(p.img) = 1 /\ p.img[1].text = msg

\* The confirmation FSM is running / has just handed control back or has
\* taken the host down
Active == pc \in {"menu", "confirm", "act"}
Ended == pc \in {"main_commit", "halted"}

ButtonTexts == {"Btns: A=ON, B=OFF", "Btns: A=OFF, B=ON", "Btns: both OFF"}

\* ------------------------------------------------------------ claims

\* C1: os.system is called only at the end of action_or_cancel, after nine
\* confirmation iterations that each read both buttons released; it is then
\* called once, after the action message has been put on the panel, with -r
\* when the menu was left by an A-only sample and -P when by a B-only one.
C1_PowerActionOnlyAfterFullCountdown ==
  [][ (syscalls' # syscalls /\ syscalls' # <<>>) \/ Count(trace', "system") > 0
        => /\ pc = "act"
           /\ cleanIters = 9
           /\ syscalls = <<>>
           /\ Len(syscalls') = 1
           /\ Count(trace', "system") = 1
           /\ selected \in {"A_ONLY", "B_ONLY"}
           /\ syscalls'[1] = IF selected = "A_ONLY"
                             THEN "sudo /usr/sbin/shutdown -r now --no-wall"
                             ELSE "sudo /usr/sbin/shutdown -P now --no-wall"
           /\ \E i \in 1..Len(trace') :
                /\ trace'[i].op = "image"
                /\ trace'[Len(trace')].op = "system"
                /\ i < Len(trace')
           /\ Shows(panel', IF selected = "A_ONLY" THEN "Rebooting..."
                                                   ELSE "Shutting down...")
    ]_vars

C1_Witness ==
  /\ pc = "halted"
  /\ selected = "B_ONLY"
  /\ syscalls = << "sudo /usr/sbin/shutdown -P now --no-wall" >>

\* C2: a confirmation iteration that reads button A or button B pressed shows
\* CANCELLED, runs no further iteration, hands control back to the main loop
\* and leaves os.system uncalled in that activation.
C2_PressCancels ==
  [][ pc = "confirm" /\ PressedRead(trace')
        => /\ pc' = "main_commit"
           /\ Shows(panel', "  CANCELLED!")
           /\ image' = panel'.img
           /\ acount' = acount
           /\ Count(trace', "buttonA_on") + Count(trace', "buttonB_on") <= 2
           /\ syscalls' = <<>>
           /\ Count(trace', "system") = 0
    ]_vars

C2_Witness ==
  /\ pc = "main_commit"
  /\ Shows(panel, "  CANCELLED!")
  /\ ~reboot
  /\ acount = 7
  /\ syscalls = <<>>

\* C3: every activation of the menu ends, either back in the main loop with
\* os.system not called or with os.system called exactly once; it is never
\* called twice in one activation.
C3_ActivationEndsOneWay ==
  /\ (Active ~> Ended)
  /\ [](Len(syscalls) <= 1)
  /\ [](Ended => \/ pc = "main_commit" /\ syscalls = <<>> /\ status = "none"
                 \/ Len(syscalls) = 1 /\ status # "none" /\ cleanIters = 9)
  /\ [](Active => syscalls = <<>>)

C3_Witness ==
  /\ pc = "halted"
  /\ selected = "A_ONLY"
  /\ Len(syscalls) = 1

\* C4: a pass of the main loop whose button sample is not BOTH draws the
\* status frame once (the metric lines, one button line, one commit) and
\* does not call restart_menu.
C4_StatusTick ==
  [][ pc = "main" /\ exc' = "none" /\ LastSample(trace') # "BOTH"
        => /\ pc' = "main"
           /\ Count(trace', "reset_to_black") = 1
           /\ Count(trace', "check_output") = 7
           /\ Count(trace', "image") = 1
           /\ Len(stats') = 7
           /\ Len(image') = 8
           /\ \A i \in 1..7 : image'[i].text = stats'[i]
           /\ image'[8].text \in ButtonTexts
           /\ panel' = [img |-> image', rot |-> 180]
           /\ mcount' = mcount /\ menuIters' = menuIters
    ]_vars

C4_Witness ==
  /\ pc = "main"
  /\ Len(image) = 8
  /\ image[8].text = "Btns: A=ON, B=OFF"
  /\ panel.img = image

\* C5: a menu iteration whose sample is A-only enters the reboot confirmation
\* and one whose sample is B-only the shutdown confirmation, at once whatever
\* the menu countdown; the menu loop is not resumed afterwards.
C5_MenuSelectsAtOnce ==
  [][ /\ pc = "menu" /\ exc' = "none" /\ LastSample(trace') \in {"A_ONLY", "B_ONLY"}
        => /\ pc' = "confirm"
           /\ reboot' = (LastSample(trace') = "A_ONLY")
           /\ acount' = 9
           /\ mcount' = mcount
           /\ panel' = panel
      /\ pc \in {"confirm", "act"} => pc' # "menu"
    ]_vars

C5_Witness ==
  /\ pc = "confirm"
  /\ reboot
  /\ menuIters = 1
  /\ mcount = 10
  /\ acount = 9

\* C6: when none of the ten menu iterations samples A-only or B-only,
\* restart_menu returns after the tenth, no confirmation was entered and
\* os.system was not called.
C6_MenuTimeout ==
  [][ pc = "menu" /\ exc' = "none" /\ LastSample(trace') \notin {"A_ONLY", "B_ONLY"}
        => /\ pc' = IF menuIters' = 10 THEN "main_commit" ELSE "menu"
           /\ menuIters' = menuIters + 1
           /\ menuIters' <= 10
           /\ selected' = "NONE"
           /\ cleanIters' = 0
           /\ syscalls' = <<>>
           /\ Count(trace', "system") = 0
    ]_vars

C6_Witness ==
  /\ pc = "main_commit"
  /\ menuIters = 10
  /\ selected = "NONE"
  /\ syscalls = <<>>
  /\ panel.img[Len(panel.img)].text = "   1 seconds"

\* C7: a metric query that fails leaves the pass of the main loop whole: the
\* list still has its 7 entries, the frame is drawn and the loop goes on.
C7_QueryFailureKeepsTick ==
  Has(trace, Ev("check_output", "raise"))
    => /\ pc = "main"
       /\ exc = "none"
       /\ Len(stats) = 7
       /\ Len(image) = 8

\* C8: an os.system call that reports failure ends the loop with a fatal
\* error, after that one attempt.
C8_PowerFailureIsFatal ==
  status = "error" => pc = "crashed" /\ Len(syscalls) = 1

\* C9: a button read that raises counts as a released button: the program
\* goes on, and the step enters neither the menu nor a confirmation nor the
\* power action.
C9_ReadFailureIsReleased ==
  ReadRaised(trace)
    => /\ exc = "none"
       /\ pc \in {"main", "menu", "confirm", "main_commit"}
       /\ syscalls = <<>>

\* The palette in the order pink, aqua, green, white, yellow, magenta, blue,
\* red, each colour by its name in COLORS
PaletteOrder ==
  << "pink", "aqua", "green", "white", "yellow", "magenta", "blue", "red" >>

\* The image holds the metric lines of a pass of the main loop: after the
\* drawing loop alone, after a status pass, or on entry to the menu
MetricLinesDrawn ==
  \/ pc = "stats_drawn"
  \/ pc = "main" /\ Has(trace, Ev("check_output", "ok"))
  \/ pc = "menu" /\ menuIters = 0

\* C10: metric line i (from 0) is drawn in palette[i mod 8], for any number of
\* lines; with the 7 metrics the lines take palette entries 0..6, each colour
\* once.
C10_PaletteByIndex ==
  MetricLinesDrawn
    => /\ Len(image) >= Len(stats)
       /\ \A i \in 1..Len(stats) :
            /\ image[i].text = stats[i]
            /\ image[i].fill = Color(PaletteOrder[((i - 1) % 8) + 1])
       /\ pc # "stats_drawn" =>
            /\ Len(stats) = 7
            /\ \A i \in 1..7 : image[i].fill = Color(PaletteOrder[i])
            /\ \A i, j \in 1..7 : image[i].fill = image[j].fill => i = j

C10_Witness ==
  /\ pc = "stats_drawn"
  /\ Len(stats) = Len(image)
  /\ Len(image) > 8
  /\ image[1].fill = Color("pink")
  /\ image[9].fill = Color("pink")

\* A read in which a button was found pressed, whichever call made it
AnyPressed(tr) ==
  \/ Has(tr, Ev("buttonA_on", "True")) \/ Has(tr, Ev("buttonA_off", "False"))
  \/ Has(tr, Ev("buttonB_on", "True")) \/ Has(tr, Ev("buttonB_off", "False"))

\* The last text drawn into an image
LastLine(img) == img[Len(img)]

\* C11: a pass of the main loop draws one button line after the last metric
\* line, "A=ON, B=OFF" in white for A-only, "A=OFF, B=ON" in white for
\* B-only, "both OFF" in red for neither; for BOTH it draws none.
C11_ButtonLine ==
  [][ pc = "main" /\ exc' = "none"
        => LET smp == LastSample(trace')
           IN  /\ Count(trace', "text") = IF smp = "BOTH" THEN 7 ELSE 8
               /\ \A i \in 1..7 : image'[i].text \notin ButtonTexts
               /\ smp = "BOTH" => Len(image') = 7
               /\ smp # "BOTH" =>
                    /\ Len(image') = 8
                    /\ image'[8].y = Y(7, 0)
                    /\ image'[7].y = Y(6, 0)
                    /\ image'[8].font = "FONT"
               /\ smp = "A_ONLY" =>
                    image'[8].text = "Btns: A=ON, B=OFF" /\ image'[8].fill = "#FFFFFF"
               /\ smp = "B_ONLY" =>
                    image'[8].text = "Btns: A=OFF, B=ON" /\ image'[8].fill = "#FFFFFF"
               /\ smp = "NONE" =>
                    image'[8].text = "Btns: both OFF" /\ image'[8].fill = "#FF0000"
    ]_vars

C11_Witness ==
  /\ pc = "main"
  /\ Len(image) = 8
  /\ LastLine(image).text = "Btns: both OFF"
  /\ LastLine(image).fill = "#FF0000"
  /\ LastSample(trace) = "NONE"

\* C12: every image handed to the display, by main, restart_menu,
\* action_or_cancel or one_msg, is handed over with rotation 180.
C12_Rotation180 ==
  /\ \A i \in 1..Len(trace) : trace[i].op = "image" => trace[i].arg = "180"
  /\ Count(trace, "image") > 0 => panel.rot = 180
  /\ panel.rot # 180 => panel = [img |-> <<>>, rot |-> 0]

C12_Witness ==
  /\ pc = "main_commit"
  /\ Shows(panel, "Rebooting...")
  /\ panel.rot = 180
  /\ Count(trace, "image") = 1

\* C13: the branch a pass of the main loop takes is the one for a single
\* sample of the two buttons: restart_menu is called only when both were read
\* pressed, and "both OFF" is drawn only when no button was read pressed in
\* that pass.
C13_OneStableSample ==
  /\ pc = "menu" /\ menuIters = 0 => LastSample(trace) = "BOTH"
  /\ (pc = "main" /\ Len(image) = 8 /\ Has(trace, Ev("get_stats", ""))
        /\ LastLine(image).text = "Btns: both OFF")
       => ~AnyPressed(trace)

\* The place of the first entry of `tr` made by one of the calls `ops`
\* (past the end when there is none)
First(tr, ops) ==
  IF \E i \in 1..Len(tr) : tr[i].op \in ops
  THEN CHOOSE i \in 1..Len(tr) :
         /\ tr[i].op \in ops
         /\ \A j \in 1..(i - 1) : tr[j].op \notin ops
  ELSE Len(tr) + 1

ButtonOps == {"buttonA_on", "buttonA_off", "buttonB_on", "buttonB_off"}

\* C14 as stated: get_stats runs once in a pass of main whose sample is not
\* BOTH, not at all in the pass that calls restart_menu, and never in the
\* menu, the confirmation or one_msg.
C14_StatsOnlyInStatusTicks ==
  [][ /\ pc = "main" /\ exc' = "none" /\ LastSample(trace') # "BOTH"
        => Count(trace', "get_stats") = 1
      /\ pc = "main" /\ pc' = "menu" => Count(trace', "get_stats") = 0
      /\ pc # "main"
        => Count(trace', "get_stats") = 0 /\ Count(trace', "check_output") = 0
    ]_vars

\* C14, amended: get_stats runs once in every pass of main, before any button
\* is read, the pass that calls restart_menu included, and never in the menu,
\* the confirmation or one_msg.
C14_StatsOncePerMainPass ==
  [][ /\ pc = "main"
        => /\ Count(trace', "get_stats") = 1
           /\ First(trace', {"get_stats"}) < First(trace', ButtonOps)
           /\ exc' = "none" => Count(trace', "check_output") = 7 /\ Len(stats') = 7
      /\ pc # "main"
        => /\ Count(trace', "get_stats") = 0
           /\ Count(trace', "check_output") = 0
           /\ stats' = stats
    ]_vars

C14_Witness ==
  /\ pc = "menu"
  /\ menuIters = 0
  /\ LastSample(trace) = "BOTH"
  /\ Count(trace, "get_stats") = 1

\* C15: action_or_cancel sleeps one second before anything else, so the reads
\* that chose the action in the menu are not followed by a read at entry; each
\* confirmation read comes after a sleep, and a first read that finds both
\* buttons released does not cancel.
C15_SleepBeforeFirstSample ==
  [][ /\ pc = "menu" /\ pc' = "confirm"
        => /\ trace'[Len(trace')] = Ev("sleep", "1")
           /\ First(trace', {"sleep"}) = Len(trace')
           /\ cleanIters' = 0
           /\ panel' = panel
      /\ pc = "confirm"
        => First(trace', {"sleep"}) < First(trace', ButtonOps)
      /\ pc = "confirm" /\ acount = 9 /\ Released(trace') = 1
        => pc' = "confirm" /\ acount' = 8 /\ cleanIters' = 1
    ]_vars

C15_Witness ==
  /\ pc = "confirm"
  /\ acount = 8
  /\ cleanIters = 1
  /\ selected = "A_ONLY"

\* The texts of an image, top to bottom
Texts(img) == [i \in 1..Len(img) |-> img[i].text]

StatusScreens ==
  {[i \in 1..7 |-> QUERIES[i].prefix \o QUERIES[i].out] \o << t >> : t \in ButtonTexts}

MenuScreens ==
  {<< "to REBOOT:", "   hold button A", "to SHUTDOWN:", "   hold button B",
      "Times out in:", "   " \o ToString(n) \o " seconds" >> : n \in 1..10}

ConfirmScreens ==
  {<< a, "  in " \o ToString(n) \o " seconds!!", "TO CANCEL:", " hold any button" >> :
     a \in {"REBOOT", "SHUTDOWN"}, n \in 1..9}

MessageScreens == {<< "  CANCELLED!" >>, << "Rebooting..." >>, << "Shutting down..." >>}

\* C16: every frame on the panel holds one screen of one iteration and
\* nothing else; the metric lines drawn in the pass that finds BOTH are
\* cleared before the menu is drawn and never shown with menu text.
C16_OneScreenPerFrame ==
  /\ panel.img # <<>> =>
       Texts(panel.img) \in
         StatusScreens \cup MenuScreens \cup ConfirmScreens \cup MessageScreens
  /\ pc = "menu" /\ menuIters > 0 => Texts(image) \in MenuScreens
  /\ pc = "menu" /\ menuIters = 0 =>
       /\ Len(image) = 7
       /\ panel.img # image

C16_Witness ==
  /\ pc = "menu"
  /\ menuIters = 1
  /\ Texts(panel.img) \in MenuScreens
  /\ panel.img = image

\* A pass of main that finds both buttons pressed and calls restart_menu
EnterMenu == MainTick(NoBadQuery, MainOutcomes) /\ pc' = "menu"

\* C18: when os.system returns, action_or_cancel and restart_menu return, the
\* main loop goes on with its one-second passes, nothing of the activation is
\* kept, and a pass that finds both buttons pressed starts the menu afresh.
C18_ReturnedActionBackToIdle ==
  /\ [][ /\ pc = "act" /\ pc' # "halted"
           => pc' = "main_commit" /\ status' \in {"ok", "error"} /\ Len(syscalls') = 1
         /\ pc = "main_commit"
           => /\ pc' = "main"
              /\ trace'[Len(trace')] = Ev("sleep", "1")
              /\ syscalls' = <<>> /\ status' = "none" /\ selected' = "NONE"
              /\ menuIters' = 0 /\ cleanIters' = 0 /\ exc' = "none"
         /\ pc = "main" /\ pc' = "menu"
           => /\ mcount' = 10 /\ menuIters' = 0 /\ cleanIters' = 0
              /\ syscalls' = <<>> /\ status' = "none" /\ selected' = "NONE"
       ]_vars
  /\ [](pc = "main" => ENABLED EnterMenu)

C18_Witness ==
  /\ pc = "main"
  /\ Shows(panel, "Shutting down...")
  /\ trace = << Ev("image", "180"), Ev("sleep", "1") >>
  /\ syscalls = <<>>

\* C19: when restart_menu returns, the image is the frame the panel already
\* shows; line 245 hands that same image over once more with nothing drawn
\* in between, line 246 sleeps, and a status frame is on the panel only after
\* the next pass of main.
C19_ReturnRecommitsLastFrame ==
  [][ /\ pc \in {"menu", "confirm", "act"} /\ pc' = "main_commit"
        => /\ panel' = [img |-> image', rot |-> 180]
           /\ Texts(image') \in MenuScreens \cup MessageScreens
      /\ pc = "main_commit"
        => /\ pc' = "main"
           /\ image' = image
           /\ panel' = panel
           /\ trace' = << Ev("image", "180"), Ev("sleep", "1") >>
           /\ Texts(panel'.img) \notin StatusScreens
      /\ pc = "main" /\ pc' = "main" /\ exc' = "none"
        => Texts(panel'.img) \in StatusScreens
    ]_vars

C19_Witness ==
  /\ pc = "main"
  /\ Shows(panel, "  CANCELLED!")
  /\ image = panel.img
  /\ trace = << Ev("image", "180"), Ev("sleep", "1") >>

====
